---- MODULE Spec2Model ----
(***************************************************************************)
(* Model of the booking server: the resource resolver (database.py), the   *)
(* availability check and the booking listing (tools/booking_tools.py),    *)
(* the resource queries (tools/resource_tools.py), the health check        *)
(* (tools/health_tools.py), the dispatcher (server.py) and the creation of *)
(* an activity through the remote API (tools/activity_tools.py), over an   *)
(* abstract relational store that may fail and that an external system     *)
(* writes.                                                                 *)
(*                                                                         *)
(* Strings are sequences of one-character strings, so that UPPER, LOWER,   *)
(* LIKE and ORDER BY are computed character by character.  Date-time       *)
(* strings are integers: a value of 0..MaxTime is the well-formed string   *)
(* of that instant, BadDate is a string strptime rejects.  Instants are    *)
(* TickMinutes minutes apart and hours are kept in tenths.                 *)
(***************************************************************************)
EXTENDS Integers, Sequences, FiniteSets, TLC

VARIABLES
    resources,      \* table resources: set of rows
    resourcelist,   \* table resourcelist: set of reservation rows
    tasks,          \* table tasks: set of rows
    calendar,       \* table calendar: set of rows
    autonum,        \* column autonum of the task counter's row in table
                    \* cpwarn, or NoNumber when the row is missing
    calendarCodes,  \* environment variable CALENDAR_CODES, already split
    request,        \* the tool call being served, or Nothing
    response,       \* the report the handler returned, or Nothing
    resolution,     \* what resolve_resource_info returned in this call, or Nothing
    sqlLog,         \* the sessions opened and closed and the statements
                    \* executed in this call, in order
    failAt,         \* the store fails at the failAt-th entry of a call's
                    \* sqlLog; 0 when it never fails
    snapshots,      \* the states the tables resources and resourcelist went
                    \* through since the call in progress began
    apiLog,         \* the requests sent to the remote API in this call
    creations       \* for each concurrent caller of create_activity, how
                    \* far its call has got and what it holds

vars == <<resources, resourcelist, tasks, calendar, autonum, calendarCodes,
          request, response, resolution, sqlLog, failAt, snapshots, apiLog,
          creations>>

dbvars == <<resources, resourcelist, tasks, calendar, autonum, calendarCodes>>

\* What a query handler leaves alone
kept == <<dbvars, failAt, snapshots, apiLog, creations>>

----------------------------------------------------------------------------
(* Bounds *)

NumResources == 2

MaxTime == 2

MaxTokenLen == 2

MaxReservations == 2

\* The instants of the model are TickMinutes minutes apart.
TickMinutes == 3

\* The concurrent callers of create_activity
NumCallers == 2

\* The value of the task counter past which no creation begins
MaxAutonum == 2

----------------------------------------------------------------------------
(* Strings *)

Chars == {"a", "A", "b", "%", "_", "\\"}

\* ASCII code of a character: the byte order of the store's collation.
CharCode(c) ==
    CASE c = "%" -> 37
      [] c = "A" -> 65
      [] c = "B" -> 66
      [] c = "P" -> 80
      [] c = "S" -> 83
      [] c = "V" -> 86
      [] c = "X" -> 88
      [] c = "\\" -> 92
      [] c = "_" -> 95
      [] c = "a" -> 97
      [] c = "b" -> 98

UpperChar(c) == CASE c = "a" -> "A" [] c = "b" -> "B" [] OTHER -> c

LowerChar(c) == CASE c = "A" -> "a" [] c = "B" -> "b" [] OTHER -> c

\* SQL UPPER(s)
UPPER(s) == [i \in 1..Len(s) |-> UpperChar(s[i])]

\* SQL LOWER(s)
LOWER(s) == [i \in 1..Len(s) |-> LowerChar(s[i])]

\* s < t in the order ORDER BY uses on strings
RECURSIVE StrLess(_, _)
StrLess(s, t) ==
    IF t = <<>> THEN FALSE
    ELSE IF s = <<>> THEN TRUE
    ELSE IF Head(s) = Head(t) THEN StrLess(Tail(s), Tail(t))
    ELSE CharCode(Head(s)) < CharCode(Head(t))

\* SQL  s LIKE p  with the default escape character: % is any run of
\* characters, _ is any one character, backslash takes the next character
\* of the pattern literally.
RECURSIVE Like(_, _)
Like(s, p) ==
    IF p = <<>> THEN s = <<>>
    ELSE IF Head(p) = "%"
        THEN Like(s, Tail(p)) \/ (s # <<>> /\ Like(Tail(s), p))
    ELSE IF Head(p) = "_"
        THEN s # <<>> /\ Like(Tail(s), Tail(p))
    ELSE IF Head(p) = "\\" /\ Len(p) > 1
        THEN s # <<>> /\ Head(s) = p[2] /\ Like(Tail(s), Tail(Tail(p)))
    ELSE s # <<>> /\ Head(s) = Head(p) /\ Like(Tail(s), Tail(p))

\* All strings over Chars of length at most n
StringsUpTo(n) == UNION {[1..k -> Chars] : k \in 0..n}

\* The rows of S as the sequences ORDER BY may return, less being the set
\* of pairs <<a, b>> with a before b in the ordering: every arrangement in
\* which no row precedes one that is smaller.
Ordered(S, less) ==
    {q \in [1..Cardinality(S) -> S] :
        /\ \A i, j \in DOMAIN q : i # j => q[i] # q[j]
        /\ \A i, j \in DOMAIN q : i < j => <<q[j], q[i]>> \notin less}

----------------------------------------------------------------------------
(* The store *)

Nothing == [nothing |-> TRUE]

ROOMS_TYPE == <<"S">>

VEHICLES_TYPE == <<"V">>

PROJECTORS_TYPE == <<"P">>

\* The resources of the model: id, description, type code, calendar code.
IdPool == << <<"A", "b">>, <<"b">>, <<"b", "a">>, <<"b", "b">> >>

DescPool == << <<"a", "b", "a">>, <<"A", "b", "\\">>, <<"%", "a">>, <<"a", "b", "a">> >>

TypePool == <<ROOMS_TYPE, VEHICLES_TYPE, <<"X">>, PROJECTORS_TYPE>>

CalPool == <<"C1", "C2", "C1", "C3">>

ResourceIndex == 1..NumResources

ResourceRow(i, d, f) ==
    [reresourceid |-> IdPool[i], redescri |-> d, retype |-> TypePool[i],
     recodcal |-> CalPool[i], flactive |-> f]

\* Resource tables whose descriptions are the pool's own
FixedResourceTables ==
    {{ResourceRow(i, DescPool[i], act[i]) : i \in ResourceIndex} :
        act \in [ResourceIndex -> {0, 1}]}

\* Resource tables with any description of the pool on any resource
ResourceTables ==
    {{ResourceRow(i, DescPool[d[i]], act[i]) : i \in ResourceIndex} :
        d \in [ResourceIndex -> 1..3], act \in [ResourceIndex -> {0, 1}]}

Times == 0..MaxTime

ReservationRows ==
    {[rlresourceid |-> IdPool[i], rlprevbegin |-> b, rlprevend |-> e] :
        i \in ResourceIndex, b \in Times, e \in Times}

ReservationTables ==
    {T \in SUBSET {r \in ReservationRows : r.rlprevbegin < r.rlprevend} :
        Cardinality(T) <= MaxReservations}

\* The columns resolve_resource_info selects
Selected(row) ==
    [reresourceid |-> row.reresourceid, redescri |-> row.redescri,
     retype |-> row.retype, recodcal |-> row.recodcal]

----------------------------------------------------------------------------
(* resolve_resource_info *)

\* WHERE UPPER(reresourceid) = UPPER(%s) AND flactive = 1
ExactMatches(res, token) ==
    {row \in res : UPPER(row.reresourceid) = UPPER(token) /\ row.flactive = 1}

\* The pattern handed to LIKE: f"%{resource}%"
LikePattern(token) == <<"%">> \o token \o <<"%">>


\* The description search without the test of flactive
DescriptionMatchesAnyRow(res, token) ==
    {row \in res : Like(LOWER(row.redescri), LOWER(LikePattern(token)))}

\* WHERE LOWER(redescri) LIKE LOWER(%s) AND flactive = 1
DescriptionMatches(res, token) ==
    {row \in res : /\ Like(LOWER(row.redescri), LOWER(LikePattern(token)))
                   /\ row.flactive = 1}

\* ORDER BY reresourceid
ById(S) ==
    {p \in S \X S : StrLess(p[1].reresourceid, p[2].reresourceid)}


\* The resolver searching descriptions first and ids only when none matches
ResolveDescriptionFirst(res, token) ==
    IF DescriptionMatches(res, token) # {}
    THEN {[type |-> IF Len(m) > 1 THEN "multiple" ELSE "single",
           resources |-> [i \in DOMAIN m |-> Selected(m[i])],
           calendar_code |-> m[1].recodcal] :
            m \in Ordered(DescriptionMatches(res, token), ById(DescriptionMatches(res, token)))}
    ELSE IF ExactMatches(res, token) # {}
    THEN {[type |-> "exact", resources |-> <<Selected(row)>>,
           calendar_code |-> row.recodcal] : row \in ExactMatches(res, token)}
    ELSE {[type |-> "not_found"]}

\* The values resolve_resource_info may return on table res
ResolveResourceInfo(res, token) ==
    IF ExactMatches(res, token) # {}
    THEN {[type |-> "exact", resources |-> <<Selected(row)>>,
           calendar_code |-> row.recodcal] : row \in ExactMatches(res, token)}
    ELSE {IF Len(m) = 0 THEN [type |-> "not_found"]
          ELSE [type |-> IF Len(m) > 1 THEN "multiple" ELSE "single",
                resources |-> [i \in DOMAIN m |-> Selected(m[i])],
                calendar_code |-> m[1].recodcal] :
            m \in Ordered(DescriptionMatches(res, token), ById(DescriptionMatches(res, token)))}

\* The statements resolve_resource_info executes on table res
ResolveLog(res, token) ==
    IF ExactMatches(res, token) # {}
    THEN <<"connect", "resources_by_id", "close">>
    ELSE <<"connect", "resources_by_id", "resources_by_description", "close">>

----------------------------------------------------------------------------
(* Date-time strings *)

BadDate == -1

DateStrings == {BadDate} \cup Times

\* datetime.strptime(s, "%Y-%m-%d %H:%M") raises ValueError on s
StrptimeRaises(s) == s \notin Times

\* The instant datetime.strptime returns for a well-formed s
Strptime(s) == CHOOSE t \in Times : t = s

\* str(e) of that ValueError
StrptimeError(s) == <<"time data ", s, " does not match format">>

\* The rounding taken up to the next whole hour
RoundUpToHours(minutes, up) == 10 * ((minutes + 59) \div 60)

\* A number of minutes is half-way between two tenths of an hour
IsTie(minutes) == minutes % 6 = 3

\* round(minutes / 60, 1) in tenths of an hour.  The argument is a float:
\* half-way between two tenths the result follows the binary value the
\* float happens to have, which is either side; up says which.
RoundTenths(minutes, up) ==
    IF minutes % 6 < 3 THEN minutes \div 6
    ELSE IF minutes % 6 > 3 THEN (minutes \div 6) + 1
    ELSE IF up THEN (minutes \div 6) + 1
    ELSE minutes \div 6

\* The ways a rounding of minutes may go
Roundings(minutes) == IF IsTie(minutes) THEN BOOLEAN ELSE {FALSE}

\* (end_dt - start_dt).total_seconds() / 60
Minutes(start_dt, end_dt) == TickMinutes * (end_dt - start_dt)

\* round((end_dt - start_dt).total_seconds() / 3600, 1), in tenths of an
\* hour
DurationTenths(start_dt, end_dt, up) ==
    RoundTenths(Minutes(start_dt, end_dt), up)

----------------------------------------------------------------------------
(* Failures of the store *)

\* The call whose statements would be log meets the failure: psycopg2
\* raises in connect, or in execute or fetch of the statement.
Fails(log) == failAt \in DOMAIN log /\ log[failAt] # "close"

\* What the call has done when the exception is raised: a refused connect
\* opens no session; nothing after the failing step is executed.
FailedLog(log) ==
    SubSeq(log, 1, failAt - 1)
        \o <<IF log[failAt] = "connect" THEN "connect_refused" ELSE log[failAt]>>

\* str(e) of the exception
StoreError(log) ==
    IF log[failAt] = "connect"
    THEN <<"could not connect to server">>
    ELSE <<"query failed: ", log[failAt]>>


\* The exception leaving the handler instead of being reported
ErrorRaised(message) == [raised |-> message]

\* except Exception as e: return json.dumps({"error": str(e)})
ErrorReport(message) == [error |-> message]

----------------------------------------------------------------------------
(* check_resource_availability *)


\* The overlap test with the boundaries included
OverlapsInclusive(r, start_dt, end_dt) ==
    r.rlprevbegin <= end_dt /\ r.rlprevend >= start_dt

\* The overlap test with the two query parameters in the other order
OverlapsSwapped(r, start_dt, end_dt) ==
    r.rlprevbegin < start_dt /\ r.rlprevend > end_dt

\* r.rlprevbegin < %s AND r.rlprevend > %s   with (end_dt, start_dt)
Overlaps(r, start_dt, end_dt) ==
    r.rlprevbegin < end_dt /\ r.rlprevend > start_dt

\* The count with the bounds of the window included
ConflictCountInclusive(rl, resource_id, start_dt, end_dt) ==
    Cardinality({r \in rl : /\ r.rlresourceid = resource_id
                            /\ OverlapsInclusive(r, start_dt, end_dt)})

\* SELECT COUNT(*) ... WHERE r.rlresourceid = %s AND (overlap)
ConflictCount(rl, resource_id, start_dt, end_dt) ==
    Cardinality({r \in rl : /\ r.rlresourceid = resource_id
                            /\ Overlaps(r, start_dt, end_dt)})

\* SELECT r.rlresourceid, COUNT(*) ... WHERE r.rlresourceid IN (...)
\* AND (overlap) GROUP BY r.rlresourceid, as the dictionary busy_resources
GroupedConflicts(rl, resource_ids, start_dt, end_dt) ==
    LET hit == {r \in rl : /\ r.rlresourceid \in resource_ids
                           /\ Overlaps(r, start_dt, end_dt)}
    IN [id \in {r.rlresourceid : r \in hit} |->
            Cardinality({r \in hit : r.rlresourceid = id})]

\* free_resources: the ids not in busy_resources, in resolution order
FreeResources(ids, busy_resources) ==
    LET IsFree(id) == id \notin DOMAIN busy_resources
    IN SelectSeq(ids, IsFree)


\* busy_list filled for every resolved id
BusyListEvery(ids, busy_resources) == ids

\* busy_list: the others
BusyList(ids, busy_resources) ==
    LET IsBusy(id) == ~(id \notin DOMAIN busy_resources)
    IN SelectSeq(ids, IsBusy)

ListIds(rows) == [i \in DOMAIN rows |-> rows[i].reresourceid]

\* The response built for an exact resolution
SpecificReport(rl, resource, info, start_dt, end_dt) ==
    LET conflitti == ConflictCount(rl, info.resources[1].reresourceid,
                                   start_dt, end_dt)
    IN [risorsa |-> [ricerca_originale |-> resource,
                     tipo |-> "risorsa_specifica",
                     id |-> info.resources[1].reresourceid,
                     descrizione |-> info.resources[1].redescri],
        disponibile |-> (conflitti = 0),
        conflitti |-> conflitti]

\* The response built for any other resolution that found something
MultipleReport(rl, resource, info, start_dt, end_dt) ==
    LET ids == ListIds(info.resources)
        busy_resources ==
            GroupedConflicts(rl, {ids[i] : i \in DOMAIN ids}, start_dt, end_dt)
        free_resources == FreeResources(ids, busy_resources)
        busy_list == BusyList(ids, busy_resources)
    IN [risorsa |-> [ricerca_originale |-> resource,
                     tipo |-> "ricerca_multipla",
                     risorse_trovate |-> Len(info.resources),
                     elenco_risorse |-> ids],
        risultato |-> [almeno_una_libera |-> Len(free_resources) > 0,
                       risorse_libere |-> free_resources,
                       risorse_occupate |-> busy_list,
                       totale_libere |-> Len(free_resources),
                       totale_occupate |-> Len(busy_list)]]

NotFoundReport(resource) ==
    [error |-> <<"Risorsa '", resource, "' non trovata">>]

\* What the handler returns once the token is resolved to info
AvailabilityReport(rl, resource, info, start_dt, end_dt) ==
    IF info.type = "not_found" THEN NotFoundReport(resource)
    ELSE IF info.type = "exact"
        THEN SpecificReport(rl, resource, info, start_dt, end_dt)
    ELSE MultipleReport(rl, resource, info, start_dt, end_dt)


\* The conflict statement executed whatever the resolution
ConflictLogAlways(info) ==
    IF info.type = "exact"
    THEN <<"connect", "resourcelist_count", "close">>
    ELSE <<"connect", "resourcelist_grouped", "close">>

\* The statement the handler executes on resourcelist after resolution
ConflictLog(info) ==
    IF info.type = "not_found" THEN <<>>
    ELSE IF info.type = "exact"
        THEN <<"connect", "resourcelist_count", "close">>
    ELSE <<"connect", "resourcelist_grouped", "close">>

CheckResourceAvailability(resource, start_time, end_time) ==
    /\ request = Nothing
    /\ request' = [name |-> "check_resource_availability",
                   resource |-> resource,
                   start_time |-> start_time, end_time |-> end_time]
    /\ IF StrptimeRaises(start_time) \/ StrptimeRaises(end_time)
       THEN /\ response' =
                  ErrorReport(StrptimeError(IF StrptimeRaises(start_time)
                                           THEN start_time ELSE end_time))
            /\ resolution' = Nothing
            /\ sqlLog' = <<>>
       ELSE \E info \in ResolveResourceInfo(resources, resource) :
            LET log == ResolveLog(resources, resource) \o ConflictLog(info)
            IN IF Fails(log)
               THEN /\ resolution' =
                          (IF failAt <= Len(ResolveLog(resources, resource))
                           THEN Nothing ELSE info)
                    /\ response' = ErrorReport(StoreError(log))
                    /\ sqlLog' = FailedLog(log)
               ELSE /\ resolution' = info
                    /\ response' = AvailabilityReport(resourcelist, resource,
                                       info, Strptime(start_time),
                                       Strptime(end_time))
                    /\ sqlLog' = log
    /\ UNCHANGED kept

----------------------------------------------------------------------------
(* find_free_resources, list_available_resources *)


\* The labels of vehicles and projectors exchanged
TipoDescrizioneSwapped(retype) ==
    IF retype = ROOMS_TYPE THEN "Aule/Stanze"
    ELSE IF retype = VEHICLES_TYPE THEN "Proiettori"
    ELSE IF retype = PROJECTORS_TYPE THEN "Automezzi"
    ELSE "Altro"

\* CASE WHEN res.retype = %s THEN ... ELSE 'Altro' END
TipoDescrizione(retype) ==
    IF retype = ROOMS_TYPE THEN "Aule/Stanze"
    ELSE IF retype = VEHICLES_TYPE THEN "Automezzi"
    ELSE IF retype = PROJECTORS_TYPE THEN "Proiettori"
    ELSE "Altro"


\* The busy resources taken with the boundaries included
BusyResourcesInclusive(rl, start_dt, end_dt) ==
    {r.rlresourceid : r \in {x \in rl : OverlapsInclusive(x, start_dt, end_dt)}}

\* WITH busy_resources AS (SELECT DISTINCT r.rlresourceid ... overlap)
BusyResources(rl, start_dt, end_dt) ==
    {r.rlresourceid : r \in {x \in rl : Overlaps(x, start_dt, end_dt)}}

\* WHERE res.flactive = 1 AND res.reresourceid NOT IN (busy_resources)
FreeRows(res, rl, start_dt, end_dt) ==
    {row \in res : /\ row.flactive = 1
                   /\ row.reresourceid \notin BusyResources(rl, start_dt, end_dt)}

\* ORDER BY res.retype, res.reresourceid
ByTypeId(S) ==
    {p \in S \X S :
        \/ StrLess(p[1].retype, p[2].retype)
        \/ /\ p[1].retype = p[2].retype
           /\ StrLess(p[1].reresourceid, p[2].reresourceid)}

\* ORDER BY retype, redescri
ByTypeDescri(S) ==
    {p \in S \X S :
        \/ StrLess(p[1].retype, p[2].retype)
        \/ /\ p[1].retype = p[2].retype
           /\ StrLess(p[1].redescri, p[2].redescri)}

\* cursor.fetchall() of the query
OrderedFreeRows(res, rl, start_dt, end_dt) ==
    Ordered(FreeRows(res, rl, start_dt, end_dt),
            ByTypeId(FreeRows(res, rl, start_dt, end_dt)))

FreeItem(row) ==
    [id |-> row.reresourceid, descrizione |-> row.redescri,
     tipo_codice |-> row.retype]

\* The response built from the ordered result rows
FreeReport(results, start_time, end_time, up) ==
    LET tipi == {TipoDescrizione(results[i].retype) : i \in DOMAIN results}
        OfTipo(t) == LET Is(row) == TipoDescrizione(row.retype) = t
                     IN SelectSeq(results, Is)
    IN [periodo_richiesto |->
            [inizio |-> start_time, fine |-> end_time,
             durata_ore |-> DurationTenths(Strptime(start_time),
                                           Strptime(end_time), up)],
        riepilogo |-> [risorse_libere_totali |-> Len(results),
                       tipi_disponibili |-> Cardinality(tipi)],
        risorse_per_tipo |->
            [t \in tipi |-> [i \in DOMAIN OfTipo(t) |-> FreeItem(OfTipo(t)[i])]]]

\* The statements of find_free_resources
FreeLog == <<"connect", "free_resources", "close">>

FindFreeResources(start_time, end_time) ==
    /\ request = Nothing
    /\ request' = [name |-> "find_free_resources",
                   start_time |-> start_time, end_time |-> end_time]
    /\ IF StrptimeRaises(start_time) \/ StrptimeRaises(end_time)
       THEN /\ response' =
                  ErrorReport(StrptimeError(IF StrptimeRaises(start_time)
                                           THEN start_time ELSE end_time))
            /\ sqlLog' = <<>>
       ELSE IF Fails(FreeLog)
       THEN /\ response' = ErrorReport(StoreError(FreeLog))
            /\ sqlLog' = FailedLog(FreeLog)
       ELSE \E results \in OrderedFreeRows(resources, resourcelist,
                                Strptime(start_time), Strptime(end_time)),
               up \in Roundings(Minutes(Strptime(start_time),
                                        Strptime(end_time))) :
            /\ response' = FreeReport(results, start_time, end_time, up)
            /\ sqlLog' = FreeLog
    /\ resolution' = Nothing
    /\ UNCHANGED kept

\* WHERE flactive = 1
ActiveRows(res) == {row \in res : row.flactive = 1}

ListItem(row) ==
    [id |-> row.reresourceid, description |-> row.redescri,
     type |-> row.retype, calendar_code |-> row.recodcal]

\* The statements of list_available_resources
ListLog == <<"connect", "active_resources", "close">>

ListAvailableResources ==
    /\ request = Nothing
    /\ request' = [name |-> "list_available_resources"]
    /\ IF Fails(ListLog)
       THEN /\ response' = ErrorReport(StoreError(ListLog))
            /\ sqlLog' = FailedLog(ListLog)
       ELSE /\ \E results \in Ordered(ActiveRows(resources),
                                       ByTypeDescri(ActiveRows(resources))) :
                response' = [total_resources |-> Len(results),
                             resources |-> [i \in DOMAIN results |->
                                                ListItem(results[i])]]
            /\ sqlLog' = ListLog
    /\ resolution' = Nothing
    /\ UNCHANGED kept

----------------------------------------------------------------------------
(* The dispatcher and the specifications *)

\* handle_call_tool hands the handler's report back; the server is ready
\* for the next call.
Return ==
    /\ request # Nothing
    /\ response # Nothing
    /\ request' = Nothing
    /\ response' = Nothing
    /\ resolution' = Nothing
    /\ sqlLog' = <<>>
    /\ snapshots' = <<>>
    /\ apiLog' = <<>>
    /\ UNCHANGED <<dbvars, failAt, creations>>

\* The tokens the availability check is called with
AvailTokens ==
    {<<"a", "b">>, <<"b">>, <<"a">>, <<"b", "a">>, <<"A", "A">>}

CALENDAR_CODES == <<"C1", "C2", "C3">>

CalendarRows ==
    {[cacodcal |-> "C1", cadescri |-> <<"b">>],
     [cacodcal |-> "C2", cadescri |-> <<"a">>],
     [cacodcal |-> "C3", cadescri |-> <<"a", "b">>],
     [cacodcal |-> "C4", cadescri |-> <<"A">>]}

\* None where the code expects a number
NoNumber == -1

\* The names of the concurrent callers
Callers == 1..NumCallers

\* No call of create_activity is in progress
NoCreation == [pc |-> "idle", resource_id |-> <<>>, task_id |-> NoNumber,
               success |-> FALSE]

NoCreations == [p \in Callers |-> NoCreation]

Idle ==
    /\ request = Nothing
    /\ response = Nothing
    /\ resolution = Nothing
    /\ sqlLog = <<>>
    /\ snapshots = <<>>
    /\ apiLog = <<>>
    /\ creations = NoCreations

Init ==
    /\ resources \in FixedResourceTables
    /\ resourcelist \in ReservationTables
    /\ tasks = {}
    /\ calendar = CalendarRows
    /\ autonum = 0
    /\ calendarCodes = CALENDAR_CODES
    /\ failAt = 0
    /\ Idle

Next ==
    \/ \E resource \in AvailTokens, start_time, end_time \in DateStrings :
        CheckResourceAvailability(resource, start_time, end_time)
    \/ \E start_time, end_time \in DateStrings :
        FindFreeResources(start_time, end_time)
    \/ ListAvailableResources
    \/ Return

Spec == Init /\ [][Next]_vars

\* The statements of health_check
HealthLog == <<"connect", "calendar_count", "active_resources_count", "close">>

\* datetime.now().isoformat()
Timestamp == "now"

HealthCheck ==
    /\ request = Nothing
    /\ request' = [name |-> "health_check"]
    /\ IF Fails(HealthLog)
       THEN /\ response' = [status |-> "unhealthy",
                            database_connection |-> "error",
                            error |-> StoreError(HealthLog),
                            timestamp |-> Timestamp]
            /\ sqlLog' = FailedLog(HealthLog)
       ELSE /\ response' = [status |-> "healthy",
                            database_connection |-> "ok",
                            calendari_totali |-> Cardinality(calendar),
                            risorse_attive |-> Cardinality(ActiveRows(resources)),
                            timestamp |-> Timestamp]
            /\ sqlLog' = HealthLog
    /\ resolution' = Nothing
    /\ UNCHANGED kept

\* The keys of tool_handlers
ToolNames ==
    {"get_active_bookings", "check_resource_availability",
     "find_free_resources", "list_available_resources", "health_check",
     "create_activity", "update_activity"}

\* The keys of arguments each handler is called with, arguments[key], in
\* the order the call evaluates them
RequiredArguments(name) ==
    CASE name = "get_active_bookings" -> <<"start_date", "end_date">>
      [] name = "check_resource_availability" ->
            <<"resource", "start_time", "end_time">>
      [] name = "find_free_resources" -> <<"start_time", "end_time">>
      [] name = "create_activity" ->
            <<"title", "resource_id", "start_time", "end_time">>
      [] name = "update_activity" ->
            <<"task_id", "title", "resource_id", "start_time", "end_time">>
      [] OTHER -> <<>>

\* The first key of keys that given lacks
FirstMissing(keys, given) ==
    keys[CHOOSE i \in DOMAIN keys :
            /\ keys[i] \notin given
            /\ \A j \in 1..(i - 1) : keys[j] \in given]

\* Names handle_call_tool may be called with that are no tool's
UnknownNames == {"", "delete_activity"}

\* handle_call_tool on a name that is not in tool_handlers: the ValueError
\* it raises is caught by its own except clause.
CallUnknownTool(name) ==
    /\ request = Nothing
    /\ name \notin ToolNames
    /\ request' = [name |-> name, arguments |-> {}]
    /\ response' = ErrorReport(<<"Tool sconosciuto: ", name>>)
    /\ resolution' = Nothing
    /\ sqlLog' = <<>>
    /\ UNCHANGED kept

\* handle_call_tool on a tool with a key missing from arguments: the
\* KeyError of arguments[key] is caught by its except clause.
CallMissingArgument(name, given) ==
    /\ request = Nothing
    /\ name \in ToolNames
    /\ \E i \in DOMAIN RequiredArguments(name) :
        RequiredArguments(name)[i] \notin given
    /\ request' = [name |-> name, arguments |-> given]
    /\ response' = ErrorReport(<<"'", FirstMissing(RequiredArguments(name), given), "'">>)
    /\ resolution' = Nothing
    /\ sqlLog' = <<>>
    /\ UNCHANGED kept

\* resolve_resource_info called on its own, on every token
ResolveCall(resource) ==
    /\ request = Nothing
    /\ request' = [name |-> "resolve_resource_info", resource |-> resource]
    /\ IF Fails(ResolveLog(resources, resource))
       THEN \* the exception leaves resolve_resource_info for its caller
            /\ resolution' = Nothing
            /\ response' = [raised |-> StoreError(ResolveLog(resources, resource))]
            /\ sqlLog' = FailedLog(ResolveLog(resources, resource))
       ELSE /\ \E info \in ResolveResourceInfo(resources, resource) :
                /\ resolution' = info
                /\ response' = info
            /\ sqlLog' = ResolveLog(resources, resource)
    /\ UNCHANGED kept

InitResolver ==
    /\ resources \in ResourceTables
    /\ resourcelist = {}
    /\ tasks = {}
    /\ calendar = CalendarRows
    /\ autonum = 0
    /\ calendarCodes = CALENDAR_CODES
    /\ failAt = 0
    /\ Idle

NextResolver ==
    \/ \E resource \in StringsUpTo(MaxTokenLen) : ResolveCall(resource)
    \/ Return

SpecResolver == InitResolver /\ [][NextResolver]_vars

\* find_free_resources on resources of every type
TypeAssignments ==
    {[i \in ResourceIndex |-> ((i + k) % Len(TypePool)) + 1] : k \in DOMAIN TypePool}
    \cup {[i \in ResourceIndex |-> k] : k \in DOMAIN TypePool}

TypedResourceTables ==
    {{[ResourceRow(i, DescPool[i], act[i]) EXCEPT !.retype = TypePool[ty[i]]] :
            i \in ResourceIndex} :
        act \in [ResourceIndex -> {0, 1}], ty \in TypeAssignments}

InitFree ==
    /\ resources \in TypedResourceTables
    /\ resourcelist \in ReservationTables
    /\ tasks = {}
    /\ calendar = CalendarRows
    /\ autonum = 0
    /\ calendarCodes = CALENDAR_CODES
    /\ failAt = 0
    /\ Idle

NextFree ==
    \/ \E start_time, end_time \in DateStrings :
        FindFreeResources(start_time, end_time)
    \/ Return

SpecFree == InitFree /\ [][NextFree]_vars

----------------------------------------------------------------------------
(* get_active_bookings *)

MaxTasks == 2

TaskCalendars == {"C1", "C2", "C4"}

\* A task row; title, location and resource text follow from the id.
TaskRow(id, cal, b, e, st) ==
    [tetaskid |-> id, tetitle |-> <<"t", id>>, tecodcal |-> cal,
     telocation |-> <<"l", id>>, telisris |-> <<"r", id>>,
     teprevbegin |-> b, teprevend |-> e, testato |-> st]

\* The calendar, interval and status a task may have
TaskFields ==
    {<<c, b, e, st>> \in TaskCalendars \X Times \X Times \X {"C", "P"} : b < e}

\* The task table with tasks 1..n, task id having the fields f[id]
TaskTable(n, f) ==
    {TaskRow(id, f[id][1], f[id][2], f[id][3], f[id][4]) : id \in 1..n}

CalendarCodeLists ==
    {<<"C1">>, <<"C1", "C2">>, CALENDAR_CODES, <<"C1", "C2", "C3", "C4">>}

\* booking['inizio'].strftime('%Y-%m-%d %H:%M')
Strftime(t) == CHOOSE s \in DateStrings : ~StrptimeRaises(s) /\ Strptime(s) = t

\* The query has three placeholders for calendar codes: cursor.execute
\* raises unless exactly three codes are configured.
ExecuteRaises(calendar_codes) == Len(calendar_codes) # 3

ExecuteError(calendar_codes) ==
    IF Len(calendar_codes) > 3
    THEN <<"not all arguments converted during string formatting">>
    ELSE <<"tuple index out of range">>

\* The query without the test of the status
BookingRowsAnyStatus(tk, cal, calendar_codes, start_dt, end_dt) ==
    {[evento |-> t.tetitle, id_evento |-> t.tetaskid,
      cod_calendario |-> c.cacodcal, nome_calendario |-> c.cadescri,
      location |-> t.telocation, lista_risorse |-> t.telisris,
      inizio |-> t.teprevbegin, fine |-> t.teprevend,
      durata_ore |-> TickMinutes * (t.teprevend - t.teprevbegin)] :
        <<t, c>> \in {p \in tk \X cal :
            /\ p[1].tecodcal = p[2].cacodcal
            /\ p[1].teprevbegin <= end_dt
            /\ p[1].teprevend >= start_dt
            /\ \E k \in DOMAIN calendar_codes : p[2].cacodcal = calendar_codes[k]}}

\* FROM tasks T1 JOIN calendar T2 ON T1.tecodcal = T2.cacodcal WHERE ...
\* The column durata_ore, EXTRACT(EPOCH FROM ...) / 3600, is kept in minutes.
BookingRows(tk, cal, calendar_codes, start_dt, end_dt) ==
    {[evento |-> t.tetitle, id_evento |-> t.tetaskid,
      cod_calendario |-> c.cacodcal, nome_calendario |-> c.cadescri,
      location |-> t.telocation, lista_risorse |-> t.telisris,
      inizio |-> t.teprevbegin, fine |-> t.teprevend,
      durata_ore |-> Minutes(t.teprevbegin, t.teprevend)] :
        <<t, c>> \in {p \in tk \X cal :
            /\ p[1].tecodcal = p[2].cacodcal
            /\ p[1].teprevbegin <= end_dt
            /\ p[1].teprevend >= start_dt
            /\ p[1].testato = "C"
            /\ \E k \in DOMAIN calendar_codes : p[2].cacodcal = calendar_codes[k]}}

\* The ordering by start first and calendar name second
ByBeginCalendar(S) ==
    {p \in S \X S :
        \/ p[1].inizio < p[2].inizio
        \/ /\ p[1].inizio = p[2].inizio
           /\ StrLess(p[1].nome_calendario, p[2].nome_calendario)}

\* ORDER BY T2.cadescri, T1.teprevbegin
ByCalendarBegin(S) ==
    {p \in S \X S :
        \/ StrLess(p[1].nome_calendario, p[2].nome_calendario)
        \/ /\ p[1].nome_calendario = p[2].nome_calendario
           /\ p[1].inizio < p[2].inizio}

\* cursor.fetchall() of the query
OrderedBookingRows(tk, cal, calendar_codes, start_dt, end_dt) ==
    Ordered(BookingRows(tk, cal, calendar_codes, start_dt, end_dt),
            ByCalendarBegin(BookingRows(tk, cal, calendar_codes, start_dt, end_dt)))

\* event_info; up is the way round(durata_ore, 1) goes at a tie
EventoInfo(booking, up) ==
    [evento |-> booking.evento, id_evento |-> booking.id_evento,
     inizio |-> Strftime(booking.inizio), fine |-> Strftime(booking.fine),
     durata_ore |-> RoundTenths(booking.durata_ore, up),
     risorse_impegnate |-> booking.lista_risorse]

\* total_hours += durata_ore over rows, in minutes
RECURSIVE SumHours(_)
SumHours(rows) ==
    IF rows = <<>> THEN 0 ELSE Head(rows).durata_ore + SumHours(Tail(rows))

\* The rows of one calendar code, in result order
OfCalendar(results, c) ==
    LET Is(b) == b.cod_calendario = c
    IN SelectSeq(results, Is)

\* The ways the roundings of one report may go: one choice for each value
\* that is half-way between two tenths (the period, each event, each
\* calendar's total, the grand total).
HalfChoices(results, start_time, end_time) ==
    LET codes == {results[i].cod_calendario : i \in DOMAIN results}
        tiedEvents == {results[i].id_evento : i \in
                        {j \in DOMAIN results : IsTie(results[j].durata_ore)}}
        tiedCodes == {c \in codes : IsTie(SumHours(OfCalendar(results, c)))}
    IN [periodo : Roundings(Minutes(Strptime(start_time), Strptime(end_time))),
        eventi : [tiedEvents -> BOOLEAN],
        risorse : [tiedCodes -> BOOLEAN],
        riepilogo : Roundings(SumHours(results))]

\* The choice a function of HalfChoices makes for key k
Up(f, k) == k \in DOMAIN f /\ f[k]

\* The keys of the dictionary bookings_by_resource in the order in which
\* the loop over the result rows inserts them, which is the order in which
\* json.dumps writes the groups
RECURSIVE KeyOrder(_)
KeyOrder(results) ==
    IF results = <<>> THEN <<>>
    ELSE LET before == KeyOrder(SubSeq(results, 1, Len(results) - 1))
             cod_cal == results[Len(results)].cod_calendario
         IN IF \E i \in DOMAIN before : before[i] = cod_cal
            THEN before
            ELSE Append(before, cod_cal)

\* The report built from the ordered result rows; hours are in tenths. The
\* dictionary risorse is the function risorse together with the order of
\* its keys, risorse_keys.
BookingsReport(results, start_time, end_time, half) ==
    LET codes == {results[i].cod_calendario : i \in DOMAIN results}
        OfCal(c) == OfCalendar(results, c)
    IN [periodo |-> [inizio |-> start_time, fine |-> end_time,
                     durata_totale_ore |->
                        DurationTenths(Strptime(start_time), Strptime(end_time),
                                       half.periodo)],
        riepilogo |-> [risorse_impegnate |-> Cardinality(codes),
                       eventi_totali |-> Len(results),
                       ore_totali |-> RoundTenths(SumHours(results),
                                                  half.riepilogo)],
        risorse_keys |-> KeyOrder(results),
        risorse |->
            [c \in codes |->
                [nome_calendario |-> OfCal(c)[1].nome_calendario,
                 eventi |-> [i \in DOMAIN OfCal(c) |->
                                EventoInfo(OfCal(c)[i],
                                           Up(half.eventi, OfCal(c)[i].id_evento))],
                 ore_totali |-> RoundTenths(SumHours(OfCal(c)),
                                            Up(half.risorse, c))]]]

\* The statements of get_active_bookings
BookingsLog == <<"connect", "bookings", "close">>

GetActiveBookings(start_time, end_time) ==
    /\ request = Nothing
    /\ request' = [name |-> "get_active_bookings",
                   start_time |-> start_time, end_time |-> end_time]
    /\ IF StrptimeRaises(start_time) \/ StrptimeRaises(end_time)
       THEN /\ response' =
                  ErrorReport(StrptimeError(IF StrptimeRaises(start_time)
                                           THEN start_time ELSE end_time))
            /\ sqlLog' = <<>>
       ELSE IF Fails(BookingsLog)
       THEN /\ response' = ErrorReport(StoreError(BookingsLog))
            /\ sqlLog' = FailedLog(BookingsLog)
       ELSE IF ExecuteRaises(calendarCodes)
       THEN /\ response' = ErrorReport(ExecuteError(calendarCodes))
            /\ sqlLog' = <<"connect", "bookings">>
       ELSE \E results \in OrderedBookingRows(tasks, calendar, calendarCodes,
                                Strptime(start_time), Strptime(end_time)) :
            \E half \in HalfChoices(results, start_time, end_time) :
            /\ response' = BookingsReport(results, start_time, end_time, half)
            /\ sqlLog' = BookingsLog
    /\ resolution' = Nothing
    /\ UNCHANGED kept

InitBookings ==
    /\ resources = {}
    /\ resourcelist = {}
    /\ \E n \in 0..MaxTasks : \E f \in [1..n -> TaskFields] :
        tasks = TaskTable(n, f)
    /\ calendar = CalendarRows
    /\ autonum = 0
    /\ calendarCodes = CALENDAR_CODES
    /\ failAt = 0
    /\ Idle

NextBookings ==
    \/ \E start_time, end_time \in DateStrings :
        GetActiveBookings(start_time, end_time)
    \/ Return

SpecBookings == InitBookings /\ [][NextBookings]_vars

\* get_active_bookings under allow-lists of one to four calendar codes,
\* on the task tables of at most one task
InitAllowList ==
    /\ resources = {}
    /\ resourcelist = {}
    /\ \E n \in {0, 1} : \E f \in [1..n -> TaskFields] :
        tasks = TaskTable(n, f)
    /\ calendar = CalendarRows
    /\ autonum = 0
    /\ calendarCodes \in CalendarCodeLists
    /\ failAt = 0
    /\ Idle

SpecAllowList == InitAllowList /\ [][NextBookings]_vars

----------------------------------------------------------------------------
(* The query tools over a store that fails *)

MaxFailAt == 7

\* A task table of one confirmed task
OneTask == TaskTable(1, << <<"C1", 0, 1, "C">> >>)

ArgumentSets ==
    SUBSET {"title", "resource_id", "resource", "start_time", "end_time"}

InitFaults ==
    /\ resources \in FixedResourceTables
    /\ resourcelist \in {T \in ReservationTables : Cardinality(T) <= 1}
    /\ tasks \in {{}, OneTask}
    /\ calendar = CalendarRows
    /\ autonum = 0
    /\ calendarCodes = CALENDAR_CODES
    /\ failAt \in 0..MaxFailAt
    /\ Idle

NextFaults ==
    \/ \E resource \in AvailTokens, start_time, end_time \in DateStrings :
        CheckResourceAvailability(resource, start_time, end_time)
    \/ \E start_time, end_time \in DateStrings :
        FindFreeResources(start_time, end_time)
    \/ \E start_time, end_time \in DateStrings :
        GetActiveBookings(start_time, end_time)
    \/ ListAvailableResources
    \/ HealthCheck
    \/ \E resource \in AvailTokens : ResolveCall(resource)
    \/ \E name \in UnknownNames : CallUnknownTool(name)
    \/ \E name \in ToolNames, given \in ArgumentSets :
        CallMissingArgument(name, given)
    \/ Return

SpecFaults == InitFaults /\ [][NextFaults]_vars

----------------------------------------------------------------------------
(* check_resource_availability beside the external write path *)

\* The writes that may fall between the call and the return of one check
MaxWrites == 2

\* The tables the check reads, as they are now
Snapshot == [resources |-> resources, resourcelist |-> resourcelist]

\* A call is being served and has not built its report yet
InProgress == request # Nothing /\ response = Nothing

\* The history of the tables once they have become res and rl
Recorded(res, rl) ==
    IF InProgress
    THEN Append(snapshots, [resources |-> res, resourcelist |-> rl])
    ELSE snapshots

\* The external system activates or deactivates resource i
WriteResource(i, f) ==
    /\ request = Nothing \/ (InProgress /\ Len(snapshots) <= MaxWrites)
    /\ \E row \in resources :
        /\ row.reresourceid = IdPool[i]
        /\ row.flactive # f
        /\ resources' = (resources \ {row}) \cup {[row EXCEPT !.flactive = f]}
        /\ snapshots' = Recorded((resources \ {row})
                                    \cup {[row EXCEPT !.flactive = f]},
                                 resourcelist)
    /\ UNCHANGED <<resourcelist, tasks, calendar, autonum, calendarCodes, request,
                   response, resolution, sqlLog, failAt, apiLog, creations>>

\* The external system records reservation r
WriteReservation(r) ==
    /\ request = Nothing \/ (InProgress /\ Len(snapshots) <= MaxWrites)
    /\ r \notin resourcelist
    /\ r.rlprevbegin < r.rlprevend
    /\ Cardinality(resourcelist) < MaxReservations
    /\ resourcelist' = resourcelist \cup {r}
    /\ snapshots' = Recorded(resources, resourcelist \cup {r})
    /\ UNCHANGED <<resources, tasks, calendar, autonum, calendarCodes, request,
                   response, resolution, sqlLog, failAt, apiLog, creations>>

\* The external system cancels reservation r
DeleteReservation(r) ==
    /\ request = Nothing \/ (InProgress /\ Len(snapshots) <= MaxWrites)
    /\ r \in resourcelist
    /\ resourcelist' = resourcelist \ {r}
    /\ snapshots' = Recorded(resources, resourcelist \ {r})
    /\ UNCHANGED <<resources, tasks, calendar, autonum, calendarCodes, request,
                   response, resolution, sqlLog, failAt, apiLog, creations>>

\* check_resource_availability up to the return of resolve_resource_info:
\* the dates are parsed and the token resolved in the resolver's session.
BeginCheck(resource, start_time, end_time) ==
    /\ request = Nothing
    /\ request' = [name |-> "check_resource_availability",
                   resource |-> resource,
                   start_time |-> start_time, end_time |-> end_time]
    /\ snapshots' = <<Snapshot>>
    /\ IF StrptimeRaises(start_time) \/ StrptimeRaises(end_time)
       THEN /\ response' =
                  ErrorReport(StrptimeError(IF StrptimeRaises(start_time)
                                           THEN start_time ELSE end_time))
            /\ resolution' = Nothing
            /\ sqlLog' = <<>>
       ELSE IF Fails(ResolveLog(resources, resource))
       THEN /\ response' = ErrorReport(StoreError(ResolveLog(resources, resource)))
            /\ resolution' = Nothing
            /\ sqlLog' = FailedLog(ResolveLog(resources, resource))
       ELSE \E info \in ResolveResourceInfo(resources, resource) :
            /\ resolution' = info
            /\ response' = (IF info.type = "not_found"
                            THEN NotFoundReport(resource) ELSE Nothing)
            /\ sqlLog' = ResolveLog(resources, resource)
    /\ UNCHANGED <<dbvars, failAt, apiLog, creations>>

\* check_resource_availability from its own connect to the return: the
\* conflict statement runs in a second session, on the tables as they are
\* by then.
FinishCheck ==
    /\ InProgress
    /\ request.name = "check_resource_availability"
    /\ resolution # Nothing
    /\ LET log == sqlLog \o ConflictLog(resolution)
       IN IF Fails(log)
          THEN /\ response' = ErrorReport(StoreError(log))
               /\ sqlLog' = FailedLog(log)
          ELSE /\ response' = AvailabilityReport(resourcelist, request.resource,
                                  resolution, Strptime(request.start_time),
                                  Strptime(request.end_time))
               /\ sqlLog' = log
    /\ UNCHANGED <<dbvars, request, resolution, failAt, snapshots, apiLog,
                   creations>>

\* The tokens of the concurrent checks
ConcTokens == {<<"b">>, <<"a">>}

InitConc ==
    /\ resources = {ResourceRow(i, DescPool[i], 1) : i \in ResourceIndex}
    /\ resourcelist = {}
    /\ tasks = {}
    /\ calendar = CalendarRows
    /\ autonum = 0
    /\ calendarCodes = CALENDAR_CODES
    /\ failAt = 0
    /\ Idle

NextConc ==
    \/ \E resource \in ConcTokens, start_time, end_time \in DateStrings :
        BeginCheck(resource, start_time, end_time)
    \/ FinishCheck
    \/ \E i \in ResourceIndex, f \in {0, 1} : WriteResource(i, f)
    \/ \E r \in ReservationRows : WriteReservation(r)
    \/ \E r \in ReservationRows : DeleteReservation(r)
    \/ Return

SpecConc == InitConc /\ [][NextConc]_vars

----------------------------------------------------------------------------
(* create_activity *)

\* self.TASK_TYPE_MAPPING.get(retype)
TASK_TYPE_MAPPING(retype) ==
    IF retype = ROOMS_TYPE THEN "TASK_TYPE_ROOMS"
    ELSE IF retype = VEHICLES_TYPE THEN "TASK_TYPE_VEHICLES"
    ELSE IF retype = PROJECTORS_TYPE THEN "TASK_TYPE_PROJECTORS"
    ELSE "None"

\* The instants datetime.now() may give during a call
Nows == {0, 1}

\* str.strip() of the strings the tools are called with, where white space
\* is the character " "
RECURSIVE LStrip(_)
LStrip(s) == IF s # <<>> /\ Head(s) = " " THEN LStrip(Tail(s)) ELSE s

RECURSIVE RStrip(_)
RStrip(s) ==
    IF s # <<>> /\ s[Len(s)] = " " THEN RStrip(SubSeq(s, 1, Len(s) - 1)) ELSE s

Strip(s) == RStrip(LStrip(s))

\* validate_activity_data: the list errors
ValidationErrors(title, resource_id, start_time, end_time, now) ==
    (IF Strip(title) = <<>> THEN <<"Il titolo e' obbligatorio">> ELSE <<>>)
    \o (IF Strip(resource_id) = <<>> THEN <<"L'ID risorsa e' obbligatorio">> ELSE <<>>)
    \o (IF StrptimeRaises(start_time) \/ StrptimeRaises(end_time)
        THEN <<"Formato data non valido. Utilizzare YYYY-MM-DD HH:MM">>
        ELSE (IF Strptime(start_time) >= Strptime(end_time)
              THEN <<"La data e ora di fine deve essere successiva alla data e ora di inizio">>
              ELSE <<>>)
             \o (IF Strptime(start_time) < now
                 THEN <<"La data e ora di inizio non puo' essere nel passato">>
                 ELSE <<>>))

\* The statements of get_next_task_id
NextIdLog == <<"connect", "cpwarn_autonum", "close">>

\* The statements of get_resource_info
InfoLog == <<"connect", "resource_info", "close">>

\* get_next_task_id: int(autonum) + 1, None without a row
GetNextTaskId(an) == IF an = NoNumber THEN NoNumber ELSE an + 1

\* get_resource_info: WHERE reresourceid = %s AND flactive = 1, fetchone
GetResourceInfo(res, resource_id) ==
    LET found == {row \in res : row.reresourceid = resource_id /\ row.flactive = 1}
    IN IF found = {}
       THEN {[found |-> FALSE,
              error |-> <<"Risorsa '", resource_id, "' non trovata o non attiva">>]}
       ELSE {[found |-> TRUE, resource_id |-> row.reresourceid,
              resource_type |-> row.retype,
              task_type |-> TASK_TYPE_MAPPING(row.retype)] : row \in found}

\* create_activity_xml: the attributes and resource elements of the payload
ActivityXml(task_id, title, info, start_dt, end_dt) ==
    [TETASKID_K |-> task_id, TETITLE |-> title, TETYPE |-> info.task_type,
     begin |-> start_dt, end |-> end_dt,
     resources |-> <<[RLRESOURCEID_K |-> info.resource_id,
                      RLRESTYPE |-> info.resource_type]>>]

\* The requests sent to the remote API, each with the answer it received:
\* POST /getToken, the POST of the payload to the task entity,
\* POST /releaseToken
GetToken(answer) == [call |-> "getToken", answer |-> answer]

PostTask(xml, answer) == [call |-> "postTask", data |-> xml, answer |-> answer]

ReleaseToken == [call |-> "releaseToken"]

\* The answers of POST /getToken
TokenAnswers == {"granted", "refused"}

\* The codes of responseStatus in the answer to the POST of the payload
StatusCodes == {"200", "201", "500"}

\* The answers to the POST of the payload: a JSON body with a status code
\* whose XML carries an error marker ("ErrorCode=" or "Errors:1") or not,
\* an HTTP error status, a body that is not JSON
PostAnswers ==
    {[kind |-> "json", code |-> c, markers |-> m] :
        c \in StatusCodes, m \in BOOLEAN}
    \cup {[kind |-> k, code |-> "", markers |-> FALSE] :
            k \in {"http_error", "invalid_json"}}

\* The branch taken when the XML of a 201 answer is not read for markers
ReadingIgnoresMarkers(answer) ==
    IF answer.kind = "http_error" THEN {"network"}
    ELSE IF answer.kind = "invalid_json" THEN {"network", "json"}
    ELSE IF answer.code = "201" THEN {"success"}
    ELSE {"none"}

\* The branch taken on the answer: raise_for_status raises a
\* RequestException; response.json() raises a JSONDecodeError, which is a
\* RequestException too in the releases of requests that define their own;
\* code "201" is read for the error markers; no branch is taken on any
\* other code
Reading(answer) ==
    IF answer.kind = "http_error" THEN {"network"}
    ELSE IF answer.kind = "invalid_json" THEN {"network", "json"}
    ELSE IF answer.code = "201"
    THEN (IF answer.markers THEN {"rejected"} ELSE {"success"})
    ELSE {"none"}

\* The calls to the remote API of a handler without the finally clause
NeverReleased(log, token_obtained) == log

\* finally: if token_obtained: release_token()
Finally(log, token_obtained) ==
    IF token_obtained THEN Append(log, ReleaseToken) ELSE log

\* The details object of the tool's report
ActivityDetails(title, resource_id, start_time, end_time) ==
    [title |-> title, resource_ids |-> resource_id,
     start_time |-> start_time, end_time |-> end_time]

\* The tool's report of a failure
ActivityFailure(message, title, resource_id, start_time, end_time) ==
    [success |-> FALSE, error |-> message,
     details |-> ActivityDetails(title, resource_id, start_time, end_time)]

\* "Errore nella creazione dell'XML: ...", added by create_activity_xml and
\* again by ActivityManager.create_activity
XmlError(message) ==
    <<"Errore nella creazione dell'XML: ", "Errore nella creazione dell'XML: ">>
        \o message

\* The report of create_activity after the POST of the payload
CreateReport(reading, xml, title, resource_id, start_time, end_time) ==
    LET Failure(message) ==
            ActivityFailure(message, title, resource_id, start_time, end_time)
    IN CASE reading = "success" ->
              [success |-> TRUE,
               message |-> "Attivita' creata con successo",
               details |-> [title |-> title,
                            resource_ids |-> resource_id,
                            start_time |-> start_time,
                            end_time |-> end_time,
                            location |-> resource_id,
                            xml |-> xml]]
         [] reading = "rejected" ->
              Failure(<<"Risorsa non disponibile o conflitto di prenotazione">>)
         [] reading = "network" ->
              Failure(<<"Errore di rete: ", "HTTPError">>)
         [] reading = "json" ->
              Failure(<<"Risposta del server non valida: ", "JSONDecodeError">>)
         [] OTHER ->
              \* no return statement is reached: the manager returns None
              \* and the tool's result["success"] raises TypeError
              Failure(<<"Errore imprevisto: ",
                        "'NoneType' object is not subscriptable">>)

\* The tool create_activity for one resource id: create_new_activity
\* validates, ActivityManager.create_activity asks for a token, builds the
\* payload from the task counter and the resource row, posts it and reads
\* the answer, and releases the token it obtained.
CreateActivity(title, resource_id, start_time, end_time, now, token, answer) ==
    /\ request = Nothing
    /\ request' = [name |-> "create_activity", title |-> title,
                   resource_id |-> resource_id,
                   start_time |-> start_time, end_time |-> end_time,
                   now |-> now]
    /\ resolution' = Nothing
    /\ LET Failure(message) ==
               ActivityFailure(message, title, resource_id, start_time, end_time)
           errors == ValidationErrors(title, resource_id, start_time,
                                      end_time, now)
           task_id == GetNextTaskId(autonum)
           token_obtained == token = "granted"
       IN IF errors # <<>>
          THEN /\ response' = Failure(<<"Dati non validi per risorsa ",
                                        resource_id, ": ">> \o errors)
               /\ sqlLog' = <<>>
               /\ apiLog' = <<>>
          ELSE IF ~token_obtained
          THEN /\ response' =
                     Failure(<<"Impossibile ottenere il token di autenticazione">>)
               /\ sqlLog' = <<>>
               /\ apiLog' = Finally(<<GetToken(token)>>, token_obtained)
          ELSE IF Fails(NextIdLog) \/ task_id = NoNumber
          THEN /\ response' = Failure(XmlError(
                                <<"Impossibile ottenere task_id dal database">>))
               /\ sqlLog' = (IF Fails(NextIdLog) THEN FailedLog(NextIdLog)
                             ELSE NextIdLog)
               /\ apiLog' = Finally(<<GetToken(token)>>, token_obtained)
          ELSE IF Fails(NextIdLog \o InfoLog)
          THEN /\ response' = Failure(XmlError(
                                <<"Errore nel recupero informazioni risorsa: ">>
                                    \o StoreError(NextIdLog \o InfoLog)))
               /\ sqlLog' = FailedLog(NextIdLog \o InfoLog)
               /\ apiLog' = Finally(<<GetToken(token)>>, token_obtained)
          ELSE \E info \in GetResourceInfo(resources, resource_id) :
               /\ sqlLog' = NextIdLog \o InfoLog
               /\ IF ~info.found
                  THEN /\ response' = Failure(XmlError(info.error))
                       /\ apiLog' = Finally(<<GetToken(token)>>, token_obtained)
                  ELSE LET xml == ActivityXml(task_id, title, info,
                                      Strptime(start_time), Strptime(end_time))
                       IN /\ apiLog' = Finally(<<GetToken(token),
                                                 PostTask(xml, answer)>>,
                                               token_obtained)
                          /\ \E reading \in Reading(answer) :
                               response' = CreateReport(reading, xml, title,
                                               resource_id, start_time, end_time)
    /\ UNCHANGED <<dbvars, failAt, snapshots, creations>>

\* The details object of update_activity's report
UpdateDetails(task_id, title, resource_id, start_time, end_time) ==
    [task_id |-> task_id, title |-> title, resource_ids |-> resource_id,
     start_time |-> start_time, end_time |-> end_time]

\* update_activity's report of a failure
UpdateFailure(message, task_id, title, resource_id, start_time, end_time) ==
    [success |-> FALSE, error |-> message,
     details |-> UpdateDetails(task_id, title, resource_id, start_time,
                               end_time)]

\* update_activity's preliminary validation of an argument without a comma:
\* resource_ids is the string itself and the loop
\* "for resource_id_single in resource_ids" validates each of its
\* characters as a resource id; the report of the first one that fails,
\* <<>> when none does
UpdateValidation(title, resource_id, start_time, end_time, now) ==
    LET Errors(i) == ValidationErrors(title, <<resource_id[i]>>, start_time,
                                      end_time, now)
        failing == {i \in DOMAIN resource_id : Errors(i) # <<>>}
    IN IF failing = {} THEN <<>>
       ELSE LET first == CHOOSE i \in failing : \A j \in failing : i <= j
            IN <<"Dati non validi per risorsa ", resource_id[first], ": ">>
                   \o Errors(first)

\* The report of update_activity after the POST of the payload
UpdateReport(reading, xml, task_id, title, resource_id, start_time, end_time) ==
    LET Failure(message) ==
            UpdateFailure(message, task_id, title, resource_id, start_time,
                          end_time)
    IN CASE reading = "success" ->
              [success |-> TRUE,
               message |-> "Attivita' aggiornata con successo",
               details |-> [task_id |-> task_id,
                            title |-> title,
                            resource_ids |-> resource_id,
                            start_time |-> start_time,
                            end_time |-> end_time,
                            location |-> resource_id,
                            xml |-> xml]]
         [] reading = "rejected" ->
              [success |-> FALSE,
               error |-> <<"Risorsa non disponibile o conflitto di prenotazione">>,
               details |-> [task_id |-> task_id,
                            title |-> title,
                            resource_ids |-> resource_id,
                            start_time |-> start_time,
                            end_time |-> end_time,
                            xml |-> xml]]
         [] reading = "network" ->
              Failure(<<"Errore di rete: ", "HTTPError">>)
         [] reading = "json" ->
              Failure(<<"Risposta del server non valida: ", "JSONDecodeError">>)
         [] OTHER ->
              \* response_obj is never assigned: the return statement raises
              \* UnboundLocalError, which the outer handler reports
              Failure(<<"Errore imprevisto: ",
                        "local variable 'response_obj' referenced before assignment">>)

\* The tool update_activity for one resource id: the validation loop, the
\* token, the payload built with the given task id from the resource row,
\* the POST and the reading of its answer, the release of the token.
UpdateActivity(task_id, title, resource_id, start_time, end_time, now, token, answer) ==
    /\ request = Nothing
    /\ request' = [name |-> "update_activity", task_id |-> task_id,
                   title |-> title, resource_id |-> resource_id,
                   start_time |-> start_time, end_time |-> end_time,
                   now |-> now]
    /\ resolution' = Nothing
    /\ LET Failure(message) ==
               UpdateFailure(message, task_id, title, resource_id, start_time,
                             end_time)
           invalid == UpdateValidation(title, resource_id, start_time,
                                       end_time, now)
           token_obtained == token = "granted"
       IN IF invalid # <<>>
          THEN /\ response' = Failure(invalid)
               /\ sqlLog' = <<>>
               /\ apiLog' = <<>>
          ELSE IF ~token_obtained
          THEN /\ response' =
                     Failure(<<"Impossibile ottenere il token di autenticazione">>)
               /\ sqlLog' = <<>>
               /\ apiLog' = <<GetToken(token)>>
          ELSE IF Fails(InfoLog)
          THEN /\ response' = Failure(XmlError(
                                <<"Errore nel recupero informazioni risorsa: ">>
                                    \o StoreError(InfoLog)))
               /\ sqlLog' = FailedLog(InfoLog)
               /\ apiLog' = Finally(<<GetToken(token)>>, token_obtained)
          ELSE \E info \in GetResourceInfo(resources, resource_id) :
               /\ sqlLog' = InfoLog
               /\ IF ~info.found
                  THEN /\ response' = Failure(XmlError(info.error))
                       /\ apiLog' = Finally(<<GetToken(token)>>, token_obtained)
                  ELSE IF StrptimeRaises(start_time) \/ StrptimeRaises(end_time)
                  THEN /\ response' = Failure(XmlError(
                                <<"Formato data deve essere YYYY-MM-DD HH:MM">>))
                       /\ apiLog' = Finally(<<GetToken(token)>>, token_obtained)
                  ELSE LET xml == ActivityXml(task_id, title, info,
                                      Strptime(start_time), Strptime(end_time))
                       IN /\ apiLog' = Finally(<<GetToken(token),
                                                 PostTask(xml, answer)>>,
                                               token_obtained)
                          /\ \E reading \in Reading(answer) :
                               response' = UpdateReport(reading, xml, task_id,
                                               title, resource_id, start_time,
                                               end_time)
    /\ UNCHANGED <<dbvars, failAt, snapshots, creations>>

\* The titles, resource ids and task ids the activity tools are called with
Titles == {<<>>, <<"t">>}

ActivityIds == {<<>>, <<" ">>, <<"b">>, <<"A", "b">>, <<"a", "b">>}

UpdateTaskIds == {1}

InitActivity ==
    /\ resources \in FixedResourceTables
    /\ resourcelist \in {T \in ReservationTables : Cardinality(T) <= 1}
    /\ tasks = {}
    /\ calendar = CalendarRows
    /\ autonum \in {NoNumber, 0}
    /\ calendarCodes = CALENDAR_CODES
    /\ failAt = 0
    /\ Idle

NextActivity ==
    \/ /\ request = Nothing
       /\ \E title \in Titles, resource_id \in ActivityIds,
             start_time, end_time \in DateStrings, now \in Nows,
             token \in TokenAnswers, answer \in PostAnswers :
           CreateActivity(title, resource_id, start_time, end_time, now,
                          token, answer)
    \/ /\ request = Nothing
       /\ \E task_id \in UpdateTaskIds, title \in Titles,
             resource_id \in ActivityIds,
             start_time, end_time \in DateStrings, now \in Nows,
             token \in TokenAnswers, answer \in PostAnswers :
           UpdateActivity(task_id, title, resource_id, start_time, end_time,
                          now, token, answer)
    \/ Return

SpecActivity == InitActivity /\ [][NextActivity]_vars

----------------------------------------------------------------------------
(* Concurrent calls of create_activity *)

\* The remote system records a task it accepted and moves the task counter
\* up to its id
RemoteCounter(an, task_id, reading) ==
    IF reading = "success" /\ task_id > an THEN task_id ELSE an

\* The resource ids the concurrent callers ask for
RaceIds == {<<"b">>, <<"A", "b">>}

\* create_activity of caller p up to the return of get_token:
\* create_new_activity validates, ActivityManager.create_activity asks for
\* the token
BeginCreation(p, title, resource_id, start_time, end_time, now, token) ==
    /\ creations[p].pc = "idle"
    /\ autonum < MaxAutonum
    /\ creations' = [creations EXCEPT ![p] =
         IF ValidationErrors(title, resource_id, start_time, end_time, now) # <<>>
             \/ token = "refused"
         THEN [pc |-> "done", resource_id |-> resource_id,
               task_id |-> NoNumber, success |-> FALSE]
         ELSE [pc |-> "token", resource_id |-> resource_id,
               task_id |-> NoNumber, success |-> FALSE]]
    /\ UNCHANGED <<dbvars, request, response, resolution, sqlLog, failAt,
                   snapshots, apiLog>>

\* create_activity_xml of caller p: get_next_task_id and get_resource_info
\* read the store, each in its own session
BuildXml(p) ==
    /\ creations[p].pc = "token"
    /\ \E info \in GetResourceInfo(resources, creations[p].resource_id) :
         creations' = [creations EXCEPT ![p] =
             IF GetNextTaskId(autonum) = NoNumber \/ ~info.found
             THEN [@ EXCEPT !.pc = "done"]
             ELSE [@ EXCEPT !.pc = "built",
                            !.task_id = GetNextTaskId(autonum)]]
    /\ UNCHANGED <<dbvars, request, response, resolution, sqlLog, failAt,
                   snapshots, apiLog>>

\* The POST of caller p's payload, the reading of the answer and the
\* release of the token
PostCreation(p, answer) ==
    /\ creations[p].pc = "built"
    /\ \E reading \in Reading(answer) :
         /\ creations' = [creations EXCEPT ![p] =
                [@ EXCEPT !.pc = "done", !.success = (reading = "success")]]
         /\ autonum' = RemoteCounter(autonum, creations[p].task_id, reading)
    /\ UNCHANGED <<resources, resourcelist, tasks, calendar, calendarCodes,
                   request, response, resolution, sqlLog, failAt, snapshots,
                   apiLog>>

\* The tool returns its report to caller p
FinishCreation(p) ==
    /\ creations[p].pc = "done"
    /\ creations' = [creations EXCEPT ![p] = NoCreation]
    /\ UNCHANGED <<dbvars, request, response, resolution, sqlLog, failAt,
                   snapshots, apiLog>>

InitRace ==
    /\ resources \in FixedResourceTables
    /\ resourcelist = {}
    /\ tasks = {}
    /\ calendar = CalendarRows
    /\ autonum \in {NoNumber, 0}
    /\ calendarCodes = CALENDAR_CODES
    /\ failAt = 0
    /\ Idle

NextRace ==
    \/ \E p \in Callers, title \in Titles, resource_id \in RaceIds,
          start_time, end_time \in DateStrings, now \in Nows,
          token \in TokenAnswers :
        BeginCreation(p, title, resource_id, start_time, end_time, now, token)
    \/ \E p \in Callers : BuildXml(p)
    \/ \E p \in Callers, answer \in PostAnswers : PostCreation(p, answer)
    \/ \E p \in Callers : FinishCreation(p)

SpecRace == InitRace /\ [][NextRace]_vars

----------------------------------------------------------------------------
(* Properties *)

\* The call named n has been served and its report is in response
Serving(n) == "name" \in DOMAIN request /\ request.name = n

\* resolve_resource_info has returned in this call
Resolved == "type" \in DOMAIN resolution

\* t occurs in s as a contiguous run of characters
Contains(s, t) ==
    \E i \in 0..(Len(s) - Len(t)) : SubSeq(s, i + 1, i + Len(t)) = t

SameIgnoringCase(s, t) == LOWER(s) = LOWER(t)

ContainsIgnoringCase(s, t) == Contains(LOWER(s), LOWER(t))

Elements(q) == {q[i] : i \in DOMAIN q}

\* The reservations of resource id that strictly overlap [ws, we]
StrictlyOverlapping(id, ws, we) ==
    {r \in resourcelist :
        r.rlresourceid = id /\ r.rlprevbegin < we /\ r.rlprevend > ws}

ResolvedIds == {resolution.resources[i].reresourceid : i \in DOMAIN resolution.resources}

ResolvedToOne == Resolved /\ resolution.type \in {"exact", "single"}

\* C1: when the token resolves to one resource, the report of
\* check_resource_availability carries a conflict count, and it is the
\* number of reservations of that resource with start < windowEnd and
\* end > windowStart (a back-to-back reservation contributes 0).
C1_ConflictCount ==
    (Serving("check_resource_availability") /\ ResolvedToOne) =>
        /\ "conflitti" \in DOMAIN response
        /\ response.conflitti =
              Cardinality(StrictlyOverlapping(resolution.resources[1].reresourceid,
                                              request.start_time, request.end_time))

\* The events a bookings report lists, by task id
ListedTaskIds ==
    UNION {{response.risorse[c].eventi[i].id_evento :
                i \in DOMAIN response.risorse[c].eventi} :
           c \in DOMAIN response.risorse}

\* C2: get_active_bookings lists a confirmed task of an allow-listed
\* calendar if and only if task.start < windowEnd and task.end > windowStart;
\* a task ending exactly at windowStart or starting exactly at windowEnd is
\* never listed.
C2_StrictOverlapListing ==
    (Serving("get_active_bookings") /\ "risorse" \in DOMAIN response) =>
        \A t \in tasks :
            (t.testato = "C" /\ t.tecodcal \in Elements(calendarCodes)) =>
                (t.tetaskid \in ListedTaskIds <=>
                    (t.teprevbegin < request.end_time
                        /\ t.teprevend > request.start_time))

\* C3: whenever the token resolves to exactly one resource, by exact id or
\* by a single description match, the report is the single-resource report:
\* the resolved id, its description, the conflict count, and an availability
\* flag that is true exactly when the count is 0.
C3_SingleResourceReport ==
    (Serving("check_resource_availability") /\ ResolvedToOne) =>
        /\ DOMAIN response = {"risorsa", "disponibile", "conflitti"}
        /\ "id" \in DOMAIN response.risorsa
        /\ response.risorsa.id = resolution.resources[1].reresourceid
        /\ response.risorsa.descrizione = resolution.resources[1].redescri
        /\ response.disponibile = (response.conflitti = 0)

\* Some active resource has the token as its id, case-insensitively
HasExactId(token) ==
    \E row \in resources :
        row.flactive = 1 /\ SameIgnoringCase(row.reresourceid, token)

\* C4: if some active resource has an id equal to the token
\* case-insensitively, resolve_resource_info returns kind exact with that
\* resource alone, and the description search is not executed, even when
\* other active resources have descriptions containing the token.
C4_ExactPrecedence ==
    (Serving("resolve_resource_info") /\ HasExactId(request.resource)) =>
        /\ resolution.type = "exact"
        /\ Len(resolution.resources) = 1
        /\ SameIgnoringCase(resolution.resources[1].reresourceid, request.resource)
        /\ \E row \in resources :
              row.flactive = 1 /\ Selected(row) = resolution.resources[1]
        /\ "resources_by_description" \notin Elements(sqlLog)

\* An exact resolution while another active resource's description
\* contains the token
C4_Witness ==
    /\ Serving("resolve_resource_info")
    /\ resolution.type = "exact"
    /\ \E row \in resources :
        /\ row.flactive = 1
        /\ row.reresourceid # resolution.resources[1].reresourceid
        /\ ContainsIgnoringCase(row.redescri, request.resource)

\* The active resources whose description contains the token
SubstringMatches(token) ==
    {row \in resources :
        row.flactive = 1 /\ ContainsIgnoringCase(row.redescri, token)}

\* C5: for every token with no exact id match, resolve_resource_info
\* returns exactly the active resources whose description contains the
\* token as a case-insensitive substring, in ascending id order, tagged
\* not_found, single or multiple by their number.
C5_DescriptionSubstring ==
    (Serving("resolve_resource_info") /\ ~HasExactId(request.resource)) =>
        LET M == SubstringMatches(request.resource)
        IN IF M = {} THEN resolution.type = "not_found"
           ELSE /\ resolution.type =
                      (IF Cardinality(M) = 1 THEN "single" ELSE "multiple")
                /\ Len(resolution.resources) = Cardinality(M)
                /\ Elements(resolution.resources) = {Selected(row) : row \in M}
                /\ \A i, j \in DOMAIN resolution.resources :
                      i < j => StrLess(resolution.resources[i].reresourceid,
                                       resolution.resources[j].reresourceid)

\* The resource ids a report or a resolution carries
ReportedIds ==
    (IF Resolved /\ resolution.type # "not_found" THEN ResolvedIds ELSE {})
    \cup
    (IF "risorsa" \in DOMAIN response
     THEN IF "id" \in DOMAIN response.risorsa
          THEN {response.risorsa.id}
          ELSE Elements(response.risorsa.elenco_risorse)
                \cup Elements(response.risultato.risorse_libere)
                \cup Elements(response.risultato.risorse_occupate)
     ELSE {})
    \cup
    (IF "risorse_per_tipo" \in DOMAIN response
     THEN UNION {{response.risorse_per_tipo[t][i].id :
                    i \in DOMAIN response.risorse_per_tipo[t]} :
                 t \in DOMAIN response.risorse_per_tipo}
     ELSE {})
    \cup
    (IF "total_resources" \in DOMAIN response
     THEN {response.resources[i].id : i \in DOMAIN response.resources}
     ELSE {})

\* C6: no resource with active = false appears in a result of
\* resolve_resource_info, check_resource_availability, find_free_resources
\* or list_available_resources.
C6_OnlyActive ==
    \A row \in resources :
        row.flactive = 0 => row.reresourceid \notin ReportedIds

\* A resolution that found something while an inactive resource's
\* description contains the token
C6_Witness ==
    /\ Serving("check_resource_availability")
    /\ Resolved
    /\ resolution.type \in {"single", "multiple"}
    /\ \E row \in resources :
        row.flactive = 0 /\ ContainsIgnoringCase(row.redescri, request.resource)

MultipleResolution ==
    Serving("check_resource_availability") /\ Resolved
        /\ resolution.type = "multiple"

\* C7: in a multiple resolution with N resources risorse_libere and
\* risorse_occupate are disjoint, their lengths sum to N
\* (totale_libere + totale_occupate = risorse_trovate), and together they
\* hold exactly the ids of elenco_risorse.
C7_Partition ==
    MultipleResolution =>
        LET out == response.risultato
        IN /\ Elements(out.risorse_libere) \cap Elements(out.risorse_occupate) = {}
           /\ Len(out.risorse_libere) + Len(out.risorse_occupate)
                 = Len(resolution.resources)
           /\ out.totale_libere = Len(out.risorse_libere)
           /\ out.totale_occupate = Len(out.risorse_occupate)
           /\ out.totale_libere + out.totale_occupate
                 = response.risorsa.risorse_trovate
           /\ response.risorsa.risorse_trovate = Len(resolution.resources)
           /\ Elements(response.risorsa.elenco_risorse) = ResolvedIds
           /\ Elements(out.risorse_libere) \cup Elements(out.risorse_occupate)
                 = Elements(response.risorsa.elenco_risorse)

\* A multiple resolution with a free and a busy resource
C7_Witness ==
    /\ MultipleResolution
    /\ response.risultato.risorse_libere # <<>>
    /\ response.risultato.risorse_occupate # <<>>

\* C8: in a multiple resolution a resolved resource is in risorse_libere if
\* and only if no reservation of it strictly overlaps the window, and in
\* risorse_occupate otherwise; almeno_una_libera is true if and only if
\* risorse_libere is not empty.
C8_FreeIffNoOverlap ==
    MultipleResolution =>
        /\ \A id \in ResolvedIds :
              LET none == StrictlyOverlapping(id, request.start_time,
                                              request.end_time) = {}
              IN /\ id \in Elements(response.risultato.risorse_libere) <=> none
                 /\ id \in Elements(response.risultato.risorse_occupate) <=> ~none
        /\ response.risultato.almeno_una_libera
              <=> response.risultato.risorse_libere # <<>>

\* A multiple resolution with a busy resource and a free one whose
\* reservation ends exactly where the window starts
C8_Witness ==
    /\ MultipleResolution
    /\ response.risultato.risorse_occupate # <<>>
    /\ response.risultato.almeno_una_libera
    /\ \E r \in resourcelist :
        /\ r.rlresourceid \in Elements(response.risultato.risorse_libere)
        /\ r.rlprevend = request.start_time

\* C9: when the token resolves to not_found, check_resource_availability
\* returns the error report naming the token, and no session is opened and
\* no statement executed after the resolver's own.
C9_NotFoundNoQuery ==
    (Serving("check_resource_availability") /\ Resolved
        /\ resolution.type = "not_found") =>
        /\ response = [error |-> <<"Risorsa '", request.resource, "' non trovata">>]
        /\ sqlLog = <<"connect", "resources_by_id", "resources_by_description",
                      "close">>

\* A not_found resolution over a reservation table that is not empty
C9_Witness ==
    /\ Serving("check_resource_availability")
    /\ Resolved
    /\ resolution.type = "not_found"
    /\ resourcelist # {}

\* The count the grouped query gives for id: absent means 0
GroupedCount(busy, id) == IF id \in DOMAIN busy THEN busy[id] ELSE 0

\* The windows of the model that contain [ws, we]
Wider(ws, we) == {w \in Times \X Times : w[1] <= ws /\ we <= w[2]}

\* C10: on one reservation table, for every resource R and windows
\* W1 contained in W2, the conflict count of R for W2 is at least its
\* conflict count for W1.
C10_Monotone ==
    (Serving("check_resource_availability") /\ Resolved
        /\ resolution.type # "not_found") =>
        \A w \in Wider(request.start_time, request.end_time) :
            IF "conflitti" \in DOMAIN response
            THEN SpecificReport(resourcelist, request.resource, resolution,
                                w[1], w[2]).conflitti >= response.conflitti
            ELSE \A id \in ResolvedIds :
                /\ GroupedCount(GroupedConflicts(resourcelist, ResolvedIds,
                                                 w[1], w[2]), id)
                     >= GroupedCount(GroupedConflicts(resourcelist, ResolvedIds,
                                        request.start_time, request.end_time), id)
                /\ id \in Elements(response.risultato.risorse_occupate) =>
                     id \in Elements(MultipleReport(resourcelist, request.resource,
                                resolution, w[1], w[2]).risultato.risorse_occupate)

\* A reported count of 1 that a wider window raises to 2
C10_Witness ==
    /\ Serving("check_resource_availability")
    /\ "conflitti" \in DOMAIN response
    /\ response.conflitti = 1
    /\ \E w \in Wider(request.start_time, request.end_time) :
        SpecificReport(resourcelist, request.resource, resolution,
                       w[1], w[2]).conflitti = 2

\* A report of find_free_resources is in response
FreeReported ==
    Serving("find_free_resources") /\ "risorse_per_tipo" \in DOMAIN response

\* The places <<category, index>> of the items of a find_free_resources report
FreePlaces ==
    UNION {{<<t, i>> : i \in DOMAIN response.risorse_per_tipo[t]} :
           t \in DOMAIN response.risorse_per_tipo}

FreeItemAt(p) == response.risorse_per_tipo[p[1]][p[2]]

\* The active resources no reservation of which strictly overlaps the
\* requested window
ActiveAndFree ==
    {row \in resources :
        /\ row.flactive = 1
        /\ StrictlyOverlapping(row.reresourceid, request.start_time,
                               request.end_time) = {}}

\* C11: find_free_resources returns exactly the active resources that have
\* no reservation strictly overlapping the window, each once, and
\* risorse_libere_totali is their number; when no reservation overlaps the
\* window it returns every active resource.
C11_FreeExactly ==
    FreeReported =>
        /\ {FreeItemAt(p).id : p \in FreePlaces}
              = {row.reresourceid : row \in ActiveAndFree}
        /\ Cardinality(FreePlaces) = Cardinality(ActiveAndFree)
        /\ response.riepilogo.risorse_libere_totali = Cardinality(ActiveAndFree)
        /\ (\A r \in resourcelist :
                ~(r.rlprevbegin < request.end_time
                    /\ r.rlprevend > request.start_time)) =>
              {FreeItemAt(p).id : p \in FreePlaces}
                  = {row.reresourceid : row \in ActiveRows(resources)}

\* A report that leaves out an active resource reserved inside the window
\* and lists one whose reservation ends exactly where the window starts
C11_Witness ==
    /\ FreeReported
    /\ \E r \in resourcelist :
        /\ r.rlprevbegin < request.end_time
        /\ r.rlprevend > request.start_time
        /\ \E row \in resources :
              row.flactive = 1 /\ row.reresourceid = r.rlresourceid
    /\ \E r \in resourcelist :
        /\ r.rlprevend = request.start_time
        /\ r.rlresourceid \in {FreeItemAt(p).id : p \in FreePlaces}

\* The category of a type code: rooms, vehicles, projectors, or the fallback
CategoryLabel(code) ==
    CASE code = <<"S">> -> "Aule/Stanze"
      [] code = <<"V">> -> "Automezzi"
      [] code = <<"P">> -> "Proiettori"
      [] OTHER -> "Altro"

\* The length of the list of category t in the report, 0 when absent
CategoryLen(t) ==
    IF t \in DOMAIN response.risorse_per_tipo
    THEN Len(response.risorse_per_tipo[t]) ELSE 0

\* C12: in every find_free_resources report each free resource is in
\* exactly one category list, the one labelled for its type code (rooms,
\* vehicles, projectors, or 'Altro' for any other code); tipi_disponibili is
\* the number of categories present and risorse_libere_totali is the sum of
\* the lengths of the category lists.
C12_Categories ==
    FreeReported =>
        /\ \A row \in ActiveAndFree :
              /\ Cardinality({p \in FreePlaces :
                                FreeItemAt(p).id = row.reresourceid}) = 1
              /\ \A p \in FreePlaces :
                    FreeItemAt(p).id = row.reresourceid =>
                        /\ p[1] = CategoryLabel(row.retype)
                        /\ FreeItemAt(p).tipo_codice = row.retype
        /\ DOMAIN response.risorse_per_tipo
              \subseteq {"Aule/Stanze", "Automezzi", "Proiettori", "Altro"}
        /\ \A t \in DOMAIN response.risorse_per_tipo : CategoryLen(t) > 0
        /\ response.riepilogo.tipi_disponibili
              = Cardinality(DOMAIN response.risorse_per_tipo)
        /\ response.riepilogo.risorse_libere_totali
              = CategoryLen("Aule/Stanze") + CategoryLen("Automezzi")
                    + CategoryLen("Proiettori") + CategoryLen("Altro")

\* A report with a resource under the fallback label and one under the
\* label of projectors
C12_Witness ==
    /\ FreeReported
    /\ "Altro" \in DOMAIN response.risorse_per_tipo
    /\ "Proiettori" \in DOMAIN response.risorse_per_tipo
    /\ response.riepilogo.tipi_disponibili = 2

\* A call of get_active_bookings with two well-formed dates has been served
BookingsServed ==
    /\ Serving("get_active_bookings")
    /\ ~StrptimeRaises(request.start_time)
    /\ ~StrptimeRaises(request.end_time)

\* C13: whatever the length of the configured calendar allow-list (1, 2, 3
\* or more codes), get_active_bookings on well-formed dates returns an
\* aggregate report, not an error report, and the report lists only tasks
\* whose calendar code is in the allow-list.
C13_AnyAllowList ==
    BookingsServed =>
        /\ "error" \notin DOMAIN response
        /\ "risorse" \in DOMAIN response
        /\ \A t \in tasks :
              t.tetaskid \in ListedTaskIds => t.tecodcal \in Elements(calendarCodes)

\* A call has been served: its report is in response
Served == request # Nothing /\ response # Nothing

\* The number of entries of log equal to e
RECURSIVE CountOf(_, _)
CountOf(log, e) ==
    IF log = <<>> THEN 0
    ELSE (IF Head(log) = e THEN 1 ELSE 0) + CountOf(Tail(log), e)

\* C14: every public query operation (get_active_bookings,
\* check_resource_availability, find_free_resources,
\* list_available_resources, health_check, the resolver) has released every
\* session it acquired when it returns, on every path: success, not found,
\* and a failure raised while connecting, executing or fetching.
C14_SessionsReleased ==
    Served => CountOf(sqlLog, "close") = CountOf(sqlLog, "connect")

\* m is a message: a string, here a non-empty sequence of its parts
IsMessage(m) == DOMAIN m = 1..Len(m) /\ Len(m) > 0

\* The call served is the one of a tool or of handle_call_tool
ToolServed == Served /\ request.name # "resolve_resource_info"

\* C15: for every input and every failure of the store or of parsing, each
\* tool operation and handle_call_tool (any tool name, any argument set)
\* returns a report or an error report whose error is a message string; no
\* exception leaves the operation.
C15_NeverThrows ==
    ToolServed =>
        /\ "raised" \notin DOMAIN response
        /\ "error" \in DOMAIN response => IsMessage(response.error)

\* An error report returned for a store failure in the middle of
\* check_resource_availability, after the resolver succeeded
C15_Witness ==
    /\ Serving("check_resource_availability")
    /\ Resolved
    /\ "error" \in DOMAIN response
    /\ failAt \in DOMAIN sqlLog

\* The error kind of the cause of the error report in response
CauseKind ==
    IF "start_time" \in DOMAIN request
        /\ (StrptimeRaises(request.start_time) \/ StrptimeRaises(request.end_time))
    THEN "ValidationError"
    ELSE IF failAt \in DOMAIN sqlLog THEN "DataAccessError"
    ELSE IF Resolved /\ resolution.type = "not_found" THEN "NotFoundError"
    ELSE "UnexpectedError"

\* C16: every error report carries the error kind of its cause:
\* ValidationError for a malformed date, NotFoundError for a token with no
\* match, DataAccessError for a store failure; so a not-found outcome never
\* has the form of a data-access failure.
C16_ErrorKinds ==
    (ToolServed /\ "error" \in DOMAIN response) =>
        /\ "kind" \in DOMAIN response
        /\ response.kind = CauseKind

\* The reports check_resource_availability gives for the request in
\* progress on the tables of snapshot d
ReportsOn(d) ==
    {AvailabilityReport(d.resourcelist, request.resource, info,
                        Strptime(request.start_time), Strptime(request.end_time)) :
        info \in ResolveResourceInfo(d.resources, request.resource)}

\* C17: while the external write path changes resources and reservations,
\* every report of check_resource_availability is the report the operation
\* gives on one single state of the tables that existed between the call
\* and its return: resolution and conflict counting see the same state.
C17_SingleState ==
    (Serving("check_resource_availability") /\ Served /\ Resolved) =>
        \E i \in DOMAIN snapshots : response \in ReportsOn(snapshots[i])

\* A report of get_active_bookings is in response
BookingsReported ==
    Serving("get_active_bookings") /\ "risorse" \in DOMAIN response

\* The sum of f[c] for c in S
RECURSIVE SumOver(_, _)
SumOver(f, S) ==
    IF S = {} THEN 0
    ELSE LET c == CHOOSE x \in S : TRUE
         IN f[c] + SumOver(f, S \ {c})

\* The per-calendar totals of the report, in tenths of an hour
GroupTotals == [c \in DOMAIN response.risorse |-> response.risorse[c].ore_totali]

Distance(a, b) == IF a >= b THEN a - b ELSE b - a

\* C18: in every get_active_bookings report the sum of the per-calendar
\* ore_totali, each rounded to one decimal, differs from riepilogo.ore_totali,
\* the unrounded grand total rounded once, by at most 0.1 times the number
\* of calendar groups.
C18_TotalsAgree ==
    BookingsReported =>
        Distance(SumOver(GroupTotals, DOMAIN GroupTotals),
                 response.riepilogo.ore_totali)
            <= Cardinality(DOMAIN response.risorse)

\* A report of two calendar groups whose rounded totals do not add up to
\* the rounded grand total
C18_Witness ==
    /\ BookingsReported
    /\ Cardinality(DOMAIN response.risorse) = 2
    /\ SumOver(GroupTotals, DOMAIN GroupTotals) # response.riepilogo.ore_totali

\* The places <<calendar code, index>> of the events of a bookings report
EventPlaces ==
    UNION {{<<c, i>> : i \in DOMAIN response.risorse[c].eventi} :
           c \in DOMAIN response.risorse}

EventAt(p) == response.risorse[p[1]].eventi[p[2]]

\* The tasks the report lists
ListedTasks == {t \in tasks : t.tetaskid \in ListedTaskIds}

\* The group list lengths of the report
GroupLengths == [c \in DOMAIN response.risorse |-> Len(response.risorse[c].eventi)]

\* C19: in every get_active_bookings report only tasks of status 'C'
\* appear, each listed task appears exactly once and in the group of its
\* own calendar code, eventi_totali is the sum of the lengths of the group
\* lists, and risorse_impegnate is the number of distinct calendar codes
\* among the listed tasks.
C19_ReportConsistent ==
    BookingsReported =>
        /\ \A p \in EventPlaces :
              \E t \in tasks : t.tetaskid = EventAt(p).id_evento
        /\ \A t \in ListedTasks :
              /\ t.testato = "C"
              /\ Cardinality({p \in EventPlaces :
                                EventAt(p).id_evento = t.tetaskid}) = 1
              /\ \A p \in EventPlaces :
                    EventAt(p).id_evento = t.tetaskid => p[1] = t.tecodcal
        /\ response.riepilogo.eventi_totali
              = SumOver(GroupLengths, DOMAIN GroupLengths)
        /\ response.riepilogo.risorse_impegnate
              = Cardinality({t.tecodcal : t \in ListedTasks})

\* A report that lists a confirmed task while a task of another status
\* lies in the same window
C19_Witness ==
    /\ BookingsReported
    /\ ListedTasks # {}
    /\ \E t \in tasks :
        /\ t.testato # "C"
        /\ t.tecodcal \in Elements(calendarCodes)
        /\ t.teprevbegin < request.end_time
        /\ t.teprevend > request.start_time

\* The reservations of the resource create_activity is asked for that
\* strictly overlap the requested interval
RequestedOverlaps ==
    {r \in resourcelist :
        /\ r.rlresourceid = request.resource_id
        /\ r.rlprevbegin < request.end_time
        /\ r.rlprevend > request.start_time}

\* The creation request was sent to the remote API in this call
Submitted == \E i \in DOMAIN apiLog : apiLog[i].call = "postTask"

\* C20: create_activity checks the availability of the requested resource
\* before creating: when a reservation of the resource strictly overlaps the
\* requested interval the tool neither submits the creation request to the
\* remote API nor reports success.
C20_ChecksAvailability ==
    (Serving("create_activity") /\ Served
        /\ ~StrptimeRaises(request.start_time)
        /\ ~StrptimeRaises(request.end_time)
        /\ RequestedOverlaps # {}) =>
        /\ ~Submitted
        /\ ~response.success

\* One of the two activity tools has returned its report
ActivityServed ==
    (Serving("create_activity") \/ Serving("update_activity")) /\ Served

\* The places of the requests of one kind in the calls to the remote API
CallsOf(call) == {i \in DOMAIN apiLog : apiLog[i].call = call}

\* get_token succeeded in this call
TokenGranted ==
    \E i \in CallsOf("getToken") : apiLog[i].answer = "granted"

\* get_token was called and failed
TokenRefused ==
    \E i \in CallsOf("getToken") : apiLog[i].answer = "refused"

\* C21: in create_activity and in update_activity, whenever get_token
\* succeeded, release_token is invoked exactly once, after every other
\* request of the call and before the tool returns, whatever happened in
\* between (payload not built, network error, invalid JSON, a status other
\* than 201, an error marker, success); when get_token failed no release is
\* attempted and no creation or update request is sent.
C21_TokenReleasedOnce ==
    ActivityServed =>
        /\ TokenGranted =>
              /\ Cardinality(CallsOf("releaseToken")) = 1
              /\ apiLog[Len(apiLog)].call = "releaseToken"
        /\ TokenRefused =>
              /\ CallsOf("releaseToken") = {}
              /\ CallsOf("postTask") = {}

\* update_activity obtained the token, posted the payload, was answered
\* with a status other than 201 and released the token
C21_Witness ==
    /\ Serving("update_activity") /\ Served
    /\ TokenGranted
    /\ \E i \in CallsOf("postTask") :
          /\ apiLog[i].answer.kind = "json"
          /\ apiLog[i].answer.code = "500"
    /\ Cardinality(CallsOf("releaseToken")) = 1

\* The input of the call is invalid: a blank title, a blank resource id, a
\* malformed date string, an end that is not after the start, a start in
\* the past
InvalidInput ==
    \/ Strip(request.title) = <<>>
    \/ Strip(request.resource_id) = <<>>
    \/ StrptimeRaises(request.start_time)
    \/ StrptimeRaises(request.end_time)
    \/ Strptime(request.start_time) >= Strptime(request.end_time)
    \/ Strptime(request.start_time) < request.now

\* C22: preliminary validation precedes any contact with the remote API: in
\* create_activity and in update_activity an invalid input is answered with
\* a success=false report without a token being requested and without any
\* request being sent.
C22_ValidationFirst ==
    (ActivityServed /\ InvalidInput) =>
        /\ ~response.success
        /\ apiLog = <<>>

\* The same for create_activity alone
C22_CreateValidationFirst ==
    (Serving("create_activity") /\ Served /\ InvalidInput) =>
        /\ ~response.success
        /\ apiLog = <<>>

\* The answer update_activity received to the POST of the payload
UpdateAnswered(code) ==
    /\ Serving("update_activity") /\ Served
    /\ \E i \in CallsOf("postTask") :
          /\ apiLog[i].answer.kind = "json"
          /\ apiLog[i].answer.code = code
          /\ ~apiLog[i].answer.markers

\* C23: update_activity accepts a remote status code of 200 as well as
\* 201: for either code, when the server XML carries no error marker, it
\* returns the success report "Attivita' aggiornata con successo" with the
\* task details.
C23_Accepts200And201 ==
    (UpdateAnswered("200") \/ UpdateAnswered("201")) =>
        /\ response.success
        /\ response.message = "Attivita' aggiornata con successo"
        /\ response.details.task_id = request.task_id

\* The same for code 201 alone
C23_Accepts201 ==
    UpdateAnswered("201") =>
        /\ response.success
        /\ response.message = "Attivita' aggiornata con successo"
        /\ response.details.task_id = request.task_id

\* The answers the call received to the POST of the payload
PostAnswered == {apiLog[i].answer : i \in CallsOf("postTask")}

InFlight == {p \in Callers : creations[p].pc = "built"}

\* C25: two create_activity invocations that run concurrently never submit
\* creation requests carrying the same task id: the ids that distinct
\* in-flight creations obtained from get_next_task_id are pairwise
\* different.
C25_DistinctTaskIds ==
    \A p, q \in InFlight :
        p # q => creations[p].task_id # creations[q].task_id

\* The record of every caller is well formed
RaceTypeOK ==
    \A p \in Callers :
        creations[p].pc \in {"idle", "token", "built", "done"}

\* The resolutions of kind exact that the read path gives for the resource
\* id of the call, on the store the call ran on
ExactResolutions ==
    {info \in ResolveResourceInfo(resources, request.resource_id) :
        info.type = "exact"}

\* create_activity reached its resource lookup in this call
LookedUp == sqlLog = NextIdLog \o InfoLog

\* C26: the read path and the write path agree on resource identity: a
\* token that resolve_resource_info resolves as kind exact is found by
\* get_resource_info as the same active resource, so create_activity never
\* rejects it as "non trovata o non attiva".
C26_SameIdentity ==
    (Serving("create_activity") /\ Served /\ LookedUp) =>
        \A info \in ExactResolutions :
            /\ \A found \in GetResourceInfo(resources, request.resource_id) :
                  /\ found.found
                  /\ found.resource_id = info.resources[1].reresourceid
            /\ response.success
                  \/ response.error # XmlError(<<"Risorsa '", request.resource_id,
                                                "' non trovata o non attiva">>)

\* The same for a token that is the stored id character for character
C26_SameIdentitySameCase ==
    (Serving("create_activity") /\ Served /\ LookedUp) =>
        \A info \in ExactResolutions :
            info.resources[1].reresourceid = request.resource_id =>
                /\ \A found \in GetResourceInfo(resources, request.resource_id) :
                      /\ found.found
                      /\ found.resource_id = info.resources[1].reresourceid
                /\ response.success
                      \/ response.error # XmlError(<<"Risorsa '", request.resource_id,
                                                    "' non trovata o non attiva">>)

\* check_resource_availability has answered on one resource found by id
CheckedById ==
    /\ Serving("check_resource_availability")
    /\ Resolved
    /\ resolution.type = "exact"
    /\ "disponibile" \in DOMAIN response

\* The ids find_free_resources returns on the store and window of the call
FreeIdsNow ==
    {row.reresourceid :
        row \in FreeRows(resources, resourcelist,
                         Strptime(request.start_time),
                         Strptime(request.end_time))}

\* What check_resource_availability answers for token id on the store and
\* window of the call
CheckedAvailable(id) ==
    {SpecificReport(resourcelist, id, info, Strptime(request.start_time),
                    Strptime(request.end_time)).disponibile :
        info \in {i \in ResolveResourceInfo(resources, id) : i.type = "exact"}}

\* C27: on one database state and one window find_free_resources and
\* check_resource_availability agree: an active resource id is in the
\* result of find_free_resources if and only if
\* check_resource_availability with that id as token reports
\* disponibile = true, with conflict count 0.
C27_FreeIffAvailable ==
    /\ CheckedById =>
          /\ response.disponibile
                <=> resolution.resources[1].reresourceid \in FreeIdsNow
          /\ response.disponibile <=> response.conflitti = 0
    /\ FreeReported =>
          \A row \in ActiveRows(resources) :
              /\ CheckedAvailable(row.reresourceid) # {}
              /\ row.reresourceid \in {FreeItemAt(p).id : p \in FreePlaces}
                    <=> CheckedAvailable(row.reresourceid) = {TRUE}

\* The check of an id that has a reservation ending where the window
\* begins and one inside the window of another resource
C27_Witness ==
    /\ CheckedById
    /\ request.resource = resolution.resources[1].reresourceid
    /\ response.disponibile
    /\ \E r \in resourcelist :
          /\ r.rlresourceid = request.resource
          /\ r.rlprevend = Strptime(request.start_time)
    /\ FreeIdsNow # {row.reresourceid : row \in ActiveRows(resources)}

\* The start of the task an event of the report stands for
TaskStart(evento) ==
    LET t == CHOOSE t \in tasks : t.tetaskid = evento.id_evento
    IN t.teprevbegin

\* C28: within every get_active_bookings report the calendar groups appear
\* in ascending order of calendar display name, and the events inside each
\* group appear in ascending order of task start time.
C28_ReportOrdered ==
    BookingsReported =>
        LET keys == response.risorse_keys
        IN /\ {keys[i] : i \in DOMAIN keys} = DOMAIN response.risorse
           /\ Len(keys) = Cardinality(DOMAIN response.risorse)
           /\ \A i, j \in DOMAIN keys :
                 i < j => ~StrLess(response.risorse[keys[j]].nome_calendario,
                                   response.risorse[keys[i]].nome_calendario)
           /\ \A c \in DOMAIN response.risorse :
                 \A i, j \in DOMAIN response.risorse[c].eventi :
                     i < j => TaskStart(response.risorse[c].eventi[i])
                                <= TaskStart(response.risorse[c].eventi[j])

\* A report of two groups in which the group that comes second holds the
\* task that starts first
C28_Witness ==
    /\ BookingsReported
    /\ Len(response.risorse_keys) = 2
    /\ TaskStart(response.risorse[response.risorse_keys[2]].eventi[1])
          < TaskStart(response.risorse[response.risorse_keys[1]].eventi[1])

\* A report with a group of two events that start at different times
C28_WitnessEvents ==
    /\ BookingsReported
    /\ \E c \in DOMAIN response.risorse :
          /\ Len(response.risorse[c].eventi) = 2
          /\ TaskStart(response.risorse[c].eventi[1])
                # TaskStart(response.risorse[c].eventi[2])

====
